---- MODULE Spec2Model ----
(***************************************************************************)
(* State-machine model of main.py, the AI research bot: the agent loop     *)
(* run_agent_stream, its collaborators (parse_json_safe, ddg_search,       *)
(* fetch_page, create_pdf), the /stream handler with its per-run queue and *)
(* poll loop gen(), and the process-wide LAST_REPORT reference.            *)
(*                                                                         *)
(* Texts the program only compares for emptiness or slices are modelled by *)
(* an identity and a length.  Oracle outputs are modelled by their raw     *)
(* text (a sequence of words) together with what json.loads makes of them. *)
(***************************************************************************)
EXTENDS Integers, Sequences, FiniteSets, TLC

VARIABLES
    clients,        \* runs for which a /stream request is still to arrive
    searchesLeft,   \* search answers the oracle still gives in this workload
    pc,             \* position of each run_agent_stream thread
    iter,           \* iterations of `for _ in range(20)` started by each run
    max_results,    \* the request's "results" parameter
    results,        \* search results the `for r in results` loop has yet to visit
    messages,       \* the conversation history sent to the oracle
    notes,          \* accumulated findings
    final_summary,  \* local final_summary
    path,           \* local path (the report file name the run computed)
    outcome,        \* how the decision loop was left
    assembled,      \* calls of create_pdf made by each run, in order
    q,              \* the run's queue.Queue
    lastEvent,      \* the event the run put last
    genOpen,        \* gen() of the run's response is executing its poll loop
    LAST_REPORT,    \* LAST_REPORT["path"]
    lock,           \* holder of LAST_REPORT_LOCK
    clock,          \* the wall clock, in seconds, when it was last read
    files,          \* report files on disk: pairs <<path, writing run>>
    call,           \* a single call of a collaborator: its arguments and what it returned
    notesCap,       \* findings the search backend yields to a run in this workload
    pass,           \* the calls of the run's current pass of the loop, if it searches
    made,           \* calls each run has made of the oracle, ddg_search and fetch_page
    puts,           \* events each run has put on its queue
    delivered,      \* stamp of the event gen() yielded last to the run's subscriber
    deliveries      \* events gen() has yielded to the run's subscriber

vars == <<clients, searchesLeft, pc, iter, max_results, results, messages, notes,
          final_summary, path, outcome, assembled, q, lastEvent,
          genOpen, LAST_REPORT, lock, clock, files, call, notesCap, pass, made,
          puts, delivered, deliveries>>

-----------------------------------------------------------------------------
(* Program constants *)

\* for _ in range(20)
MaxIterations == 20
\* fetch_page(url, max_attempts=3)
MaxAttempts == 3
\* text and len(text) > 200
MinExtractLen == 200
\* text[:500]
RawFallbackLen == 500
\* text[:5000]
DigestInputLen == 5000

(* Bounds of the model *)

Runs == {"r1", "r2"}

\* findings a run accumulates before the search backend returns nothing more
MaxNotes == 2
\* the same, for the run that may search in every pass
MaxLongNotes == 0
\* events that may wait in a run's queue
MaxQueue == 1
\* seconds the wall clock advances
MaxClock == 1
\* anchors of a search result page
MaxAnchors == 2

\* the "results" parameter of a /stream request
ResultsParams == {0, 2}

\* search answers the oracle gives in the workload with more findings
MaxSearches == 2

\* the requests that arrive, the search answers the oracle gives in all and
\* the findings a run accumulates: one run that may search in every pass,
\* two runs that never search, one run with few searches and more findings
Workloads ==
    { [clients |-> {"r1"}, searches |-> MaxIterations, notes |-> MaxLongNotes],
      [clients |-> Runs, searches |-> 0, notes |-> 0],
      [clients |-> {"r1"}, searches |-> MaxSearches, notes |-> MaxNotes] }

-----------------------------------------------------------------------------
(* Values *)

None == <<>>
Free == "free"

\* a text: identity and length
Text(id, len) == [id |-> id, len |-> len]
EmptyText == Text("", 0)
Prefix(t, n) == IF t.len <= n THEN t ELSE Text(t.id, n)

\* a JSON value; strings are sequences of words
Absent == [t |-> "absent", v |-> <<>>]
Null == [t |-> "null", v |-> <<>>]
Num == [t |-> "number", v |-> <<"1">>]
Str(s) == [t |-> "string", v |-> s]
Obj(a, qy, s) == [t |-> "object", action |-> a, query |-> qy, summary |-> s]
NonObj(t) == [t |-> t, action |-> Absent, query |-> Absent, summary |-> Absent]
NoJSON == NonObj("none")

Task == <<"X">>
FallbackLiteral == <<"Kein", "vollstaendiges", "Ergebnis.">>

LowerWord(w) ==
    CASE w = "SEARCH" -> "search"
      [] w = "Search" -> "search"
      [] w = "FINISH" -> "finish"
      [] w = "Finish" -> "finish"
      [] w = "Researching" -> "researching"
      [] OTHER -> w

\* str.lower()
Lower(s) == [k \in DOMAIN s |-> LowerWord(s[k])]

\* `w in word`, for a single word of a text
WordContains(word, w) == word = w \/ (word = "researching" /\ w = "search")

\* `w in s`
Contains(s, w) == \E k \in DOMAIN s : WordContains(s[k], w)

\* dict.get(key, default)
Get(v, default) == IF v.t = "absent" THEN default ELSE v

\* a value as a condition: None, "" are false
Truthy(v) == ~(v.t \in {"absent", "null"}) /\ v.v # <<>>

safe_text(v) == IF v.t \in {"absent", "null"} THEN <<>> ELSE v.v

-----------------------------------------------------------------------------
(* The oracle: ollama_chat returns a text; Out pairs the text with the     *)
(* value json.loads returns for it (NoJSON when it raises).                *)

Out(raw, json) == [raw |-> raw, json |-> json]

OracleOutputs ==
    { Out(<<>>, NoJSON),
      Out(<<"{", "action", "search", "query", "Y", "}">>,
          Obj(Str(<<"search">>), Str(<<"Y">>), Absent)),
      Out(<<"{", "action", "SEARCH", "}">>,
          Obj(Str(<<"SEARCH">>), Absent, Absent)),
      Out(<<"{", "action", "finish", "summary", "S", "}">>,
          Obj(Str(<<"finish">>), Absent, Str(<<"S">>))),
      Out(<<"{", "action", "finish", "summary", "", "}">>,
          Obj(Str(<<"finish">>), Absent, Str(<<>>))),
      Out(<<"{", "action", "finish", "}">>,
          Obj(Str(<<"finish">>), Absent, Absent)),
      Out(<<"{", "action", "wait", "}">>,
          Obj(Str(<<"wait">>), Absent, Absent)),
      Out(<<"{", "}">>, Obj(Absent, Absent, Absent)),
      Out(<<"{", "action", "1", "}">>, Obj(Num, Absent, Absent)),
      Out(<<"[", "1", "]">>, NonObj("array")),
      Out(<<"\"", "search", "\"">>, NonObj("string")),
      Out(<<"7">>, NonObj("number")),
      Out(<<"please", "Search", "cats">>, NoJSON),
      Out(<<"I", "Finish", "here">>, NoJSON),
      Out(<<"finish", "or", "search">>, NoJSON),
      Out(<<"hello">>, NoJSON) }

parse_json_safe_cased(s) ==
    IF s.json.t # "none" THEN s.json
    ELSE IF Contains(s.raw, "search")
         THEN Obj(Str(<<"search">>), Str(s.raw), Absent)
    ELSE IF Contains(s.raw, "finish")
         THEN Obj(Str(<<"finish">>), Absent, Str(s.raw))
    ELSE Obj(Absent, Absent, Absent)

\* json.loads, else the keyword tests on s.lower(), else {}
parse_json_safe(s) ==
    IF s.json.t # "none" THEN s.json
    ELSE IF Contains(Lower(s.raw), "search")
         THEN Obj(Str(<<"search">>), Str(s.raw), Absent)
    ELSE IF Contains(Lower(s.raw), "finish")
         THEN Obj(Str(<<"finish">>), Absent, Str(s.raw))
    ELSE Obj(Absent, Absent, Absent)

Decision(kind, query, summary) == [kind |-> kind, query |-> query, summary |-> summary]

\* what one pass of the decision loop makes of the oracle's answer:
\* `if not resp`, parse_json_safe, action.get("action", "").lower(), the branches
DecodeAction(resp, task) ==
    IF resp.raw = <<>> THEN Decision("silent", Absent, Absent)
    ELSE LET action == parse_json_safe(resp) IN
         IF action.t # "object" THEN Decision("raise", Absent, Absent)
         ELSE LET a == Get(action.action, Str(<<>>)) IN
              IF a.t # "string" THEN Decision("raise", Absent, Absent)
              ELSE LET act == Lower(a.v) IN
                   IF act = <<"search">>
                   THEN Decision("search", Get(action.query, Str(task)), Absent)
                   ELSE IF act = <<"finish">>
                   THEN Decision("finish", Absent, Get(action.summary, Str(<<>>)))
                   ELSE Decision("invalid", Absent, Absent)

-----------------------------------------------------------------------------
(* ddg_search: the result page is a sequence of anchors *)

Anchor(href, text, parent) == [href |-> href, text |-> text, parent |-> parent]

Anchors ==
    { Anchor("http://u1", "t1", Text("s1", 40)),
      Anchor("http://u2", "", Text("s2", 30)),
      Anchor("/rel", "t3", Text("s3", 20)) }

\* href.startswith("http")
StartsWithHttp(href) == href \in {"http://u1", "http://u2"}

RECURSIVE SeqsUpTo(_, _)
SeqsUpTo(S, n) ==
    IF n = 0 THEN {<<>>}
    ELSE LET shorter == SeqsUpTo(S, n - 1) IN
         shorter \cup {Append(s, x) : s \in shorter, x \in S}

Pages == SeqsUpTo(Anchors, MaxAnchors)

\* the answer to the POST: raise_for_status passes or the request fails
SearchResponses ==
    {[ok |-> FALSE, anchors |-> <<>>]} \cup {[ok |-> TRUE, anchors |-> p] : p \in Pages}

SearchResult(a) ==
    [title |-> IF a.text # "" THEN a.text ELSE a.href, url |-> a.href, snippet |-> a.parent]

\* the loop over soup.find_all("a", href=True)
RECURSIVE ScanAnchors(_, _, _)
ScanAnchors(anchors, found, maxres) ==
    IF anchors = <<>> THEN found
    ELSE LET a == Head(anchors)
             now == IF StartsWithHttp(a.href) THEN Append(found, SearchResult(a)) ELSE found
         IN  IF Len(now) >= maxres THEN now
             ELSE ScanAnchors(Tail(anchors), now, maxres)

ddg_search(response, maxres) ==
    IF response.ok THEN ScanAnchors(response.anchors, <<>>, maxres) ELSE <<>>

\* the result lists ddg_search returns for each "results" parameter, over all
\* answers to its request
SearchOutcomes ==
    [n \in ResultsParams |-> {ddg_search(response, n) : response \in SearchResponses}]

-----------------------------------------------------------------------------
(* fetch_page: each attempt fails (transport error, timeout, HTTP error     *)
(* status), or answers with a body, given by what trafilatura extracts     *)
(* from it and by its visible text.                                        *)

Response(status, extract, soup) == [status |-> status, extract |-> extract, soup |-> soup]

Article == Text("ARTICLE", 6000)
Plain == Text("PLAIN", 300)

AttemptOutcomes ==
    { Response("error", EmptyText, EmptyText),
      Response("ok", Article, Text("PAGE", 7000)),
      Response("ok", Text("TEASER", 150), Plain),
      Response("ok", EmptyText, EmptyText) }

\* the header profiles: User-Agent and Accept-Language
COMMON_HEADERS ==
    << [ua |-> "Chrome/120 Windows", lang |-> "en-US"],
       [ua |-> "Safari/15.1 Macintosh", lang |-> "en-US"],
       [ua |-> "Chrome/119 Linux", lang |-> "en-US"] >>

HeadersFirst(attempt) == COMMON_HEADERS[1]

\* COMMON_HEADERS[attempt % len(COMMON_HEADERS)], attempt counted from 0
Headers(attempt) == COMMON_HEADERS[(attempt % Len(COMMON_HEADERS)) + 1]

\* trafilatura.extract if it is longer than 200 characters, else soup.get_text
AttemptText(o) == IF o.extract.len > MinExtractLen THEN o.extract ELSE o.soup

\* what fetch_page returns, the number of requests it sent and their headers
Fetched(text, attempts) ==
    [text |-> text, attempts |-> attempts, sent |-> [i \in 1..attempts |-> Headers(i - 1)]]

\* for attempt in range(max_attempts): outs[attempt] answers request number attempt
RECURSIVE fetch_attempts(_, _)
fetch_attempts(outs, attempt) ==
    IF attempt > Len(outs) THEN Fetched(EmptyText, Len(outs))
    ELSE IF outs[attempt].status = "error" THEN fetch_attempts(outs, attempt + 1)
    ELSE Fetched(AttemptText(outs[attempt]), attempt)

fetch_page(outs) == fetch_attempts(outs, 1)

\* the answers to the requests of one call of fetch_page
AttemptSeqs == [1..MaxAttempts -> AttemptOutcomes]

\* the texts fetch_page returns, over all answers to its requests
PageTexts == {fetch_page(outs).text : outs \in AttemptSeqs}

\* ollama_chat on the summarising prompt: a digest, or "" when unavailable
Digests == {EmptyText, Text("DIGEST", 100)}

Finding(r, summary) == [title |-> r.title, url |-> r.url, summary |-> summary]

\* the content of the user message sent to the summarising oracle: text[:5000]
DigestInput(text) == Prefix(text, DigestInputLen)

MakeFindingLongFallback(r, text, digest) ==
    IF text.len = 0 THEN Finding(r, r.snippet)
    ELSE Finding(r, IF digest.len # 0 THEN digest ELSE Prefix(text, DigestInputLen))

\* lines 278-288: the finding one search result yields
MakeFinding(r, text, digest) ==
    IF text.len = 0 THEN Finding(r, r.snippet)
    ELSE Finding(r, IF digest.len # 0 THEN digest ELSE Prefix(text, RawFallbackLen))

\* what the pass did for one search result: the page fetch_page was called
\* for, the text it returned, and the summarising call of the oracle if made
Page(url, text, digest) ==
    [url |-> url, text |-> text, asked |-> text.len # 0,
     input |-> IF text.len # 0 THEN DigestInput(text) ELSE EmptyText,
     digest |-> IF text.len # 0 THEN digest ELSE EmptyText]

\* the calls of a pass that searches: the oracle's answer, the calls of
\* ddg_search, the results returned and what was done for each so far
SearchPass(resp, searches, found, pages) ==
    [on |-> TRUE, resp |-> resp, searches |-> searches, found |-> found, pages |-> pages]

NoPass == [on |-> FALSE, resp |-> Out(<<>>, NoJSON), searches |-> <<>>, found |-> <<>>,
           pages |-> <<>>]

\* counters of the calls a run has made
Made(oracle, search, fetch) == [oracle |-> oracle, search |-> search, fetch |-> fetch]

-----------------------------------------------------------------------------
(* Events and report files *)

\* a message of the conversation history
Message(role, content) == [role |-> role, content |-> content]

\* messages.append({"role": "user", "content": "Neue Knowledge hinzugefuegt."})
Knowledge == Message("user", "knowledge")

Event(kind, arg) == [kind |-> kind, arg |-> arg]
NoEvent == Event("none", <<>>)

\* an event on a queue, marked with the run that put it and its number
Stamp(r, n) == [run |-> r, seq |-> n]
Stamped(ev, r, n) == [kind |-> ev.kind, arg |-> ev.arg, stamp |-> Stamp(r, n)]
NoStamp == Stamp("", 0)

DequeueKeeps(queue) == queue

\* q.get removes the event it returns
Dequeue(queue) == Tail(queue)

\* datetime.now() to the second: the time of the last reading, or a later one
now_ts == clock..MaxClock

\* f"report_{now_ts()}.pdf", f"report_partial_{now_ts()}.pdf"
ReportPath(ts) == <<"report", ts>>
PartialPath(ts) == <<"report_partial", ts>>

LoopContinuesInclusive(n) == n <= MaxIterations

\* for _ in range(20)
LoopContinues(n) == n < MaxIterations

InvalidRetries == "loop"

\* the else branch of the decision ends with `break`: the fallback follows
InvalidBreaks == "fallback"

FallbackSummaryAsIs(fs) == fs

\* final_summary or "Kein vollstaendiges Ergebnis."
FallbackSummary(fs) == IF Truthy(fs) THEN fs ELSE Str(FallbackLiteral)

\* the findings with the first finding of each URL only
RECURSIVE FirstOfEachUrl(_, _)
FirstOfEachUrl(ns, seen) ==
    IF ns = <<>> THEN <<>>
    ELSE IF Head(ns).url \in seen THEN FirstOfEachUrl(Tail(ns), seen)
    ELSE <<Head(ns)>> \o FirstOfEachUrl(Tail(ns), seen \cup {Head(ns).url})

Section(i, n) == [number |-> i, title |-> n.title, url |-> n.url, summary |-> n.summary]

SectionsDistinctUrls(ns) ==
    LET kept == FirstOfEachUrl(ns, {}) IN [i \in 1..Len(kept) |-> Section(i, kept[i])]

\* for i, n in enumerate(notes, 1): heading, URL and summary of finding i
Sections(ns) == [i \in 1..Len(ns) |-> Section(i, ns[i])]

\* one call of create_pdf: the summary it writes is safe_text(summary)
Call(p, summary, ns, ok) ==
    [path |-> p, summary |-> safe_text(summary), notes |-> ns, sections |-> Sections(ns),
     ok |-> ok]

\* doc.build(story) writes the file, replacing one of the same name
Written(fs, p, r) == {f \in fs : f[1] # p} \cup {<<p, r>>}

-----------------------------------------------------------------------------
(* Initial state: the requests that will arrive are one /stream request,   *)
(* or two that may overlap.                                                *)

\* no request has arrived yet
Idle ==
    /\ pc = [r \in Runs |-> "idle"]
    /\ iter = [r \in Runs |-> 0]
    /\ max_results = [r \in Runs |-> 0]
    /\ results = [r \in Runs |-> <<>>]
    /\ messages = [r \in Runs |-> <<>>]
    /\ notes = [r \in Runs |-> <<>>]
    /\ final_summary = [r \in Runs |-> Str(<<>>)]
    /\ path = [r \in Runs |-> None]
    /\ outcome = [r \in Runs |-> "none"]
    /\ assembled = [r \in Runs |-> <<>>]
    /\ q = [r \in Runs |-> <<>>]
    /\ lastEvent = [r \in Runs |-> NoEvent]
    /\ genOpen = [r \in Runs |-> FALSE]
    /\ LAST_REPORT = None
    /\ lock = Free
    /\ clock = 0
    /\ files = {}
    /\ pass = [r \in Runs |-> NoPass]
    /\ made = [r \in Runs |-> Made(0, 0, 0)]
    /\ puts = [r \in Runs |-> 0]
    /\ delivered = [r \in Runs |-> NoStamp]
    /\ deliveries = [r \in Runs |-> 0]

NoCall == [op |-> "none"]

Init ==
    /\ \E w \in Workloads :
         clients = w.clients /\ searchesLeft = w.searches /\ notesCap = w.notes
    /\ Idle
    /\ call = NoCall

\* q.put(ev)
Put(r, ev) ==
    /\ Len(q[r]) < MaxQueue
    /\ q' = [q EXCEPT ![r] = Append(@, Stamped(ev, r, puts[r] + 1))]
    /\ lastEvent' = [lastEvent EXCEPT ![r] = ev]
    /\ puts' = [puts EXCEPT ![r] = @ + 1]

\* /stream: a queue, the response generator and the agent thread
Stream(r) ==
    /\ r \in clients
    /\ clients' = clients \ {r}
    /\ \E n \in ResultsParams : max_results' = [max_results EXCEPT ![r] = n]
    /\ messages' = [messages EXCEPT ![r] = <<Message("system", "prompt"), Message("user", "task")>>]
    /\ pc' = [pc EXCEPT ![r] = "loop"]
    /\ genOpen' = [genOpen EXCEPT ![r] = TRUE]
    /\ UNCHANGED <<searchesLeft, iter, results, notes, final_summary, path, outcome,
                   assembled, q, lastEvent, LAST_REPORT, lock, clock, files, call,
                   notesCap, pass, made, puts, delivered, deliveries>>

\* one pass of the loop: the oracle's answer, the branch on the action, its
\* event and, for a search, ddg_search (with no result the pass ends here)
LoopStep(r) ==
    /\ pc[r] = "loop"
    /\ LoopContinues(iter[r])
    /\ iter' = [iter EXCEPT ![r] = @ + 1]
    /\ \E resp \in OracleOutputs :
         LET d == DecodeAction(resp, Task) IN
         \/ /\ d.kind = "silent"
            /\ Put(r, Event("warn_silent", <<>>))
            /\ outcome' = [outcome EXCEPT ![r] = "silent"]
            /\ pc' = [pc EXCEPT ![r] = "fallback"]
            /\ pass' = [pass EXCEPT ![r] = NoPass]
            /\ made' = [made EXCEPT ![r].oracle = @ + 1]
            /\ UNCHANGED <<searchesLeft, results, messages, final_summary>>
         \/ /\ d.kind = "raise"
            /\ outcome' = [outcome EXCEPT ![r] = "raised"]
            /\ pc' = [pc EXCEPT ![r] = "crashed"]
            /\ pass' = [pass EXCEPT ![r] = NoPass]
            /\ made' = [made EXCEPT ![r].oracle = @ + 1]
            /\ UNCHANGED <<searchesLeft, results, messages, final_summary, q, lastEvent,
                           puts>>
         \/ /\ d.kind = "search"
            /\ searchesLeft > 0
            /\ searchesLeft' = searchesLeft - 1
            /\ Put(r, Event("search", d.query.v))
            /\ \E found \in SearchOutcomes[max_results[r]] :
                 /\ Len(notes[r]) + Len(found) <= notesCap
                 /\ results' = [results EXCEPT ![r] = found]
                 /\ pass' = [pass EXCEPT ![r] =
                        SearchPass(resp, <<[query |-> d.query, max_results |-> max_results[r]]>>,
                                   found, <<>>)]
                 /\ made' = [made EXCEPT ![r].oracle = @ + 1, ![r].search = @ + 1]
                 /\ messages' = IF found = <<>>
                                 THEN [messages EXCEPT ![r] = Append(@, Knowledge)]
                                 ELSE messages
                 /\ pc' = [pc EXCEPT ![r] = IF found = <<>> THEN "loop" ELSE "load"]
            /\ UNCHANGED <<final_summary, outcome>>
         \/ /\ d.kind = "finish"
            /\ final_summary' = [final_summary EXCEPT ![r] = d.summary]
            /\ Put(r, Event("finale", <<>>))
            /\ outcome' = [outcome EXCEPT ![r] = "finish"]
            /\ pc' = [pc EXCEPT ![r] = "finish"]
            /\ pass' = [pass EXCEPT ![r] = NoPass]
            /\ made' = [made EXCEPT ![r].oracle = @ + 1]
            /\ UNCHANGED <<searchesLeft, results, messages>>
         \/ /\ d.kind = "invalid"
            /\ Put(r, Event("warn_invalid", <<>>))
            /\ outcome' = [outcome EXCEPT ![r] = "invalid"]
            /\ pc' = [pc EXCEPT ![r] = InvalidBreaks]
            /\ pass' = [pass EXCEPT ![r] = NoPass]
            /\ made' = [made EXCEPT ![r].oracle = @ + 1]
            /\ UNCHANGED <<searchesLeft, results, messages, final_summary>>
    /\ UNCHANGED <<clients, call, notesCap, max_results, notes, path, assembled, genOpen,
                   LAST_REPORT, lock, clock, files, delivered, deliveries>>

\* range(20) is used up: the loop falls through to the fallback PDF
Exhaust(r) ==
    /\ pc[r] = "loop"
    /\ ~LoopContinues(iter[r])
    /\ outcome' = [outcome EXCEPT ![r] = "exhausted"]
    /\ pc' = [pc EXCEPT ![r] = "fallback"]
    /\ pass' = [pass EXCEPT ![r] = NoPass]
    /\ UNCHANGED <<messages, clients, call, searchesLeft, iter, max_results, results, notes,
                   final_summary, path, assembled, q, lastEvent, genOpen,
                   LAST_REPORT, lock, clock, files,
                   notesCap, made, puts, delivered, deliveries>>

\* the head of `for r in results`: the "loading" event
LoadPage(r) ==
    /\ pc[r] = "load"
    /\ Put(r, Event("load", <<Head(results[r]).title, Head(results[r]).url>>))
    /\ pc' = [pc EXCEPT ![r] = "fetch"]
    /\ UNCHANGED <<messages, clients, call, searchesLeft, iter, max_results, results, notes,
                   final_summary, path, outcome, assembled, genOpen,
                   LAST_REPORT, lock, clock, files,
                   notesCap, pass, made, delivered, deliveries>>

\* fetch_page, the digest, notes.append and the event; then the next result,
\* or after the last one the history message and the next pass of the loop
FetchPage(r) ==
    /\ pc[r] = "fetch"
    /\ \E text \in PageTexts, digest \in Digests :
         LET res == Head(results[r])
         IN  /\ text.len = 0 => digest = EmptyText
             /\ notes' = [notes EXCEPT ![r] = Append(@, MakeFinding(res, text, digest))]
             /\ pass' = [pass EXCEPT ![r].pages = Append(@, Page(res.url, text, digest))]
             /\ made' = [made EXCEPT ![r].fetch = @ + 1,
                                      ![r].oracle = IF text.len # 0 THEN @ + 1 ELSE @]
             /\ Put(r, Event(IF text.len = 0 THEN "snippet" ELSE "summarised",
                             <<res.title>>))
    /\ results' = [results EXCEPT ![r] = Tail(@)]
    /\ messages' = IF Len(results[r]) = 1
                    THEN [messages EXCEPT ![r] = Append(@, Knowledge)]
                    ELSE messages
    /\ pc' = [pc EXCEPT ![r] = IF Len(results[r]) = 1 THEN "loop" ELSE "load"]
    /\ UNCHANGED <<clients, call, notesCap, searchesLeft, iter, max_results, final_summary,
                   path, outcome, assembled, genOpen, LAST_REPORT, lock, clock,
                   files, delivered, deliveries>>

\* the finish branch: file name from the clock, create_pdf
FinishPdf(r) ==
    /\ pc[r] = "finish"
    /\ \E ok \in BOOLEAN, ts \in now_ts :
         LET p == ReportPath(ts) IN
         /\ clock' = ts
         /\ path' = [path EXCEPT ![r] = p]
         /\ assembled' = [assembled EXCEPT
                            ![r] = Append(@, Call(p, final_summary[r], notes[r], ok))]
         /\ files' = IF ok THEN Written(files, p, r) ELSE files
         /\ pc' = [pc EXCEPT ![r] = IF ok THEN "finish_lock" ELSE "done"]
    /\ UNCHANGED <<messages, clients, call, searchesLeft, iter, max_results, results, notes,
                   final_summary, outcome, q, lastEvent, genOpen,
                   LAST_REPORT, lock,
                   notesCap, pass, made, puts, delivered, deliveries>>

\* with LAST_REPORT_LOCK:
FinishAcquire(r) ==
    /\ pc[r] = "finish_lock"
    /\ lock = Free
    /\ lock' = r
    /\ pc' = [pc EXCEPT ![r] = "finish_set"]
    /\ UNCHANGED <<messages, clients, call, searchesLeft, iter, max_results, results, notes,
                   final_summary, path, outcome, assembled, q, lastEvent,
                   genOpen, LAST_REPORT, clock, files,
                   notesCap, pass, made, puts, delivered, deliveries>>

\* LAST_REPORT["path"] = created, and the lock is released
FinishSet(r) ==
    /\ pc[r] = "finish_set"
    /\ LAST_REPORT' = path[r]
    /\ lock' = Free
    /\ pc' = [pc EXCEPT ![r] = "finish_put"]
    /\ UNCHANGED <<messages, clients, call, searchesLeft, iter, max_results, results, notes,
                   final_summary, path, outcome, assembled, q, lastEvent,
                   genOpen, clock, files,
                   notesCap, pass, made, puts, delivered, deliveries>>

\* the "PDF bereit" event; return
FinishPut(r) ==
    /\ pc[r] = "finish_put"
    /\ Put(r, Event("pdf_ready", path[r]))
    /\ pc' = [pc EXCEPT ![r] = "done"]
    /\ UNCHANGED <<messages, clients, call, searchesLeft, iter, max_results, results, notes,
                   final_summary, path, outcome, assembled, genOpen,
                   LAST_REPORT, lock, clock, files,
                   notesCap, pass, made, delivered, deliveries>>

\* after the loop: file name from the clock, create_pdf (its result is not kept)
FallbackPdf(r) ==
    /\ pc[r] = "fallback"
    /\ \E ok \in BOOLEAN, ts \in now_ts :
         LET p == PartialPath(ts) IN
         /\ clock' = ts
         /\ path' = [path EXCEPT ![r] = p]
         /\ assembled' = [assembled EXCEPT
                            ![r] = Append(@, Call(p, FallbackSummary(final_summary[r]),
                                                  notes[r], ok))]
         /\ files' = IF ok THEN Written(files, p, r) ELSE files
    /\ pc' = [pc EXCEPT ![r] = "fallback_lock"]
    /\ UNCHANGED <<messages, clients, call, searchesLeft, iter, max_results, results, notes,
                   final_summary, outcome, q, lastEvent, genOpen,
                   LAST_REPORT, lock,
                   notesCap, pass, made, puts, delivered, deliveries>>

FallbackAcquire(r) ==
    /\ pc[r] = "fallback_lock"
    /\ lock = Free
    /\ lock' = r
    /\ pc' = [pc EXCEPT ![r] = "fallback_set"]
    /\ UNCHANGED <<messages, clients, call, searchesLeft, iter, max_results, results, notes,
                   final_summary, path, outcome, assembled, q, lastEvent,
                   genOpen, LAST_REPORT, clock, files,
                   notesCap, pass, made, puts, delivered, deliveries>>

\* LAST_REPORT["path"] = path, and the lock is released
FallbackSet(r) ==
    /\ pc[r] = "fallback_set"
    /\ LAST_REPORT' = path[r]
    /\ lock' = Free
    /\ pc' = [pc EXCEPT ![r] = "fallback_put"]
    /\ UNCHANGED <<messages, clients, call, searchesLeft, iter, max_results, results, notes,
                   final_summary, path, outcome, assembled, q, lastEvent,
                   genOpen, clock, files,
                   notesCap, pass, made, puts, delivered, deliveries>>

\* the "Zwischenstand PDF" event; the thread ends
FallbackPut(r) ==
    /\ pc[r] = "fallback_put"
    /\ Put(r, Event("partial_ready", path[r]))
    /\ pc' = [pc EXCEPT ![r] = "done"]
    /\ UNCHANGED <<messages, clients, call, searchesLeft, iter, max_results, results, notes,
                   final_summary, path, outcome, assembled, genOpen,
                   LAST_REPORT, lock, clock, files,
                   notesCap, pass, made, delivered, deliveries>>

\* gen(): q.get(timeout=1) returns an event, which is yielded
Gen(r) ==
    /\ genOpen[r]
    /\ q[r] # <<>>
    /\ delivered' = [delivered EXCEPT ![r] = Head(q[r]).stamp]
    /\ deliveries' = [deliveries EXCEPT ![r] = @ + 1]
    /\ q' = [q EXCEPT ![r] = Dequeue(@)]
    /\ UNCHANGED <<messages, clients, call, searchesLeft, pc, iter, max_results, results, notes,
                   final_summary, path, outcome, assembled, lastEvent, genOpen,
                   LAST_REPORT, lock, clock, files, notesCap, pass, made, puts>>

\* gen(): q.get times out, queue.Empty, continue
GenTimeout(r) ==
    /\ genOpen[r]
    /\ q[r] = <<>>
    /\ UNCHANGED vars

Agent(r) ==
    \/ LoopStep(r)
    \/ Exhaust(r)
    \/ LoadPage(r)
    \/ FetchPage(r)
    \/ FinishPdf(r)
    \/ FinishAcquire(r)
    \/ FinishSet(r)
    \/ FinishPut(r)
    \/ FallbackPdf(r)
    \/ FallbackAcquire(r)
    \/ FallbackSet(r)
    \/ FallbackPut(r)

Next ==
    \/ \E r \in Runs : Stream(r)
    \/ \E r \in Runs : Agent(r)
    \/ \E r \in Runs : Gen(r)
    \/ \E r \in Runs : GenTimeout(r)

Spec == Init /\ [][Next]_vars

\* threads are scheduled: every agent thread and every response generator
\* that can take a step eventually takes one
FairSpec ==
    /\ Spec
    /\ \A r \in Runs : WF_vars(Agent(r))
    /\ \A r \in Runs : WF_vars(Gen(r))

-----------------------------------------------------------------------------
(* The collaborators on their own: one call of the decoding of an oracle    *)
(* answer, of fetch_page or of ddg_search, on arguments drawn from bounded *)
(* sets, while no request is being served.                                 *)

\* words of an oracle answer that json.loads rejects
Words == {"search", "Search", "finish", "FINISH", "cats", "Researching"}

\* length, in words, of such an answer
MaxWords == 2

Garbled == {Out(raw, NoJSON) : raw \in SeqsUpTo(Words, MaxWords)}

\* a call that has not returned: resp is the oracle answer to decode, outs
\* the answers to the requests of fetch_page, response and max_results the
\* answer to the request of ddg_search and its limit
CallArgs(op, resp, outs, response, n) ==
    [op |-> op, resp |-> resp, outs |-> outs, response |-> response, max_results |-> n,
     returned |-> FALSE, out |-> None]

Arguments ==
    {CallArgs("decode", resp, <<>>, [ok |-> FALSE, anchors |-> <<>>], 0) :
         resp \in OracleOutputs \cup Garbled}
    \cup {CallArgs("fetch_page", Out(<<>>, NoJSON), outs, [ok |-> FALSE, anchors |-> <<>>], 0) :
             outs \in AttemptSeqs}
    \cup {CallArgs("ddg_search", Out(<<>>, NoJSON), <<>>, response, n) :
             response \in SearchResponses, n \in 0..MaxAnchors}

CallInit ==
    /\ clients = {}
    /\ searchesLeft = 0
    /\ notesCap = 0
    /\ Idle
    /\ call \in Arguments

Return(out) ==
    /\ ~call.returned
    /\ call' = [call EXCEPT !.returned = TRUE, !.out = out]
    /\ UNCHANGED <<clients, searchesLeft, pc, iter, max_results, results, messages, notes,
                   final_summary, path, outcome, assembled, q, lastEvent,
                   genOpen, LAST_REPORT, lock, clock, files, notesCap, pass, made,
                   puts, delivered, deliveries>>

CallDecode == call.op = "decode" /\ Return(DecodeAction(call.resp, Task))

CallFetchPage == call.op = "fetch_page" /\ Return(fetch_page(call.outs))

CallDdgSearch ==
    call.op = "ddg_search" /\ Return(ddg_search(call.response, call.max_results))

CallNext == CallDecode \/ CallFetchPage \/ CallDdgSearch

CallSpec == CallInit /\ [][CallNext]_vars

\* the call of op has returned
Returned(op) == call.op = op /\ call.returned

-----------------------------------------------------------------------------
(* Properties *)

\* the agent thread of run r has ended: it returned, or an exception ended it
Ended(r) == pc[r] \in {"done", "crashed"}

Calls(r) == DOMAIN assembled[r]

\* report files the run's assemblies wrote
ArtifactsProduced(r) == Cardinality({k \in Calls(r) : assembled[r][k].ok})

OnDisk(p) == \E f \in files : f[1] = p

\* events that say how the run's report can be had, or that there is none
ReportReady == {"pdf_ready", "partial_ready"}
TerminalEvents == ReportReady \cup {"no_artifact"}

\* C1: every run that has ended has invoked create_pdf exactly once, and no
\* run invokes it twice.
C1_AssembledExactlyOnce ==
    \A r \in Runs :
        /\ Len(assembled[r]) <= 1
        /\ Ended(r) => Len(assembled[r]) = 1

\* C2: the decide step never raises: no oracle output ends the agent thread
\* with an uncaught exception.
C2_DecideNeverRaises ==
    \A r \in Runs : outcome[r] # "raised" /\ pc[r] # "crashed"

\* C3: a run that has returned has put a final terminating event (report
\* ready, or no artifact available) as its last event.
C3_LastEventIsTerminal ==
    \A r \in Runs : pc[r] = "done" => lastEvent[r].kind \in TerminalEvents

\* C4: when create_pdf returned None, the last event of the run says that no
\* artifact is available.
C4_FailedAssemblyIsAnnounced ==
    \A r \in Runs :
        (pc[r] = "done" /\ \E k \in Calls(r) : ~assembled[r][k].ok)
            => lastEvent[r].kind = "no_artifact"

\* C5: once the run has put its report-ready event and the subscriber has read
\* everything put, the poll loop gen() eventually stops.
C5_StreamCloses ==
    \A r \in Runs :
        (lastEvent[r].kind \in ReportReady /\ q[r] = <<>>) ~> ~genOpen[r]

\* C6 as stated: a run that used up the iteration cap has produced exactly one
\* artifact, with a non-empty executive summary.
C6_CapYieldsOneArtifact ==
    \A r \in Runs :
        (outcome[r] = "exhausted" /\ pc[r] = "done")
            => /\ ArtifactsProduced(r) = 1
               /\ \A k \in Calls(r) : assembled[r][k].summary # <<>>

\* C6 as amended: a run that used up the iteration cap has made 20 decisions
\* and invoked create_pdf exactly once, with the non-empty fallback literal as
\* summary; the report file exists if that call succeeded, and the run has
\* produced no artifact if it failed.
C6_CapAssemblesOnceWithLiteral ==
    \A r \in Runs :
        (outcome[r] = "exhausted" /\ pc[r] = "done")
            => /\ iter[r] = MaxIterations
               /\ Len(assembled[r]) = 1
               /\ assembled[r][1].summary = FallbackLiteral
               /\ assembled[r][1].summary # <<>>
               /\ assembled[r][1].ok => OnDisk(assembled[r][1].path)
               /\ ArtifactsProduced(r) = IF assembled[r][1].ok THEN 1 ELSE 0

C6_Witness ==
    \E r \in Runs :
        /\ outcome[r] = "exhausted"
        /\ pc[r] = "done"
        /\ iter[r] = MaxIterations
        /\ assembled[r][1].ok

\* C7: whenever create_pdf is called while the terminal summary is empty, the
\* summary it writes is the fallback literal.
C7_EmptySummaryBecomesLiteral ==
    \A r \in Runs : \A k \in Calls(r) :
        safe_text(final_summary[r]) = <<>> => assembled[r][k].summary = FallbackLiteral

\* C8: LAST_REPORT["path"] is unset or the path of a report whose assembly
\* succeeded.
C8_LastReportWasAssembled ==
    \/ LAST_REPORT = None
    \/ \E r \in Runs : \E k \in Calls(r) :
          assembled[r][k].ok /\ assembled[r][k].path = LAST_REPORT

\* every update of LAST_REPORT["path"] is made by the holder of the lock
LockedUpdates ==
    [][LAST_REPORT' # LAST_REPORT => lock \in Runs]_vars

\* C9: two runs never write their reports under the same file name.
C9_DistinctArtifactNames ==
    \A r1, r2 \in Runs :
        (r1 # r2 /\ path[r1] # None /\ path[r2] # None) => path[r1] # path[r2]

\* C10: the iteration counter never exceeds the maximum: the oracle is asked
\* for at most 20 decisions, and a run at the head of the loop after its 20th
\* decision goes on to the fallback report without deciding again.
C10_IterationBudget ==
    /\ [](\A r \in Runs : iter[r] <= MaxIterations)
    /\ [][\A r \in Runs :
            (pc[r] = "loop" /\ iter[r] = MaxIterations)
                => (iter'[r] = iter[r] /\ pc'[r] \in {"loop", "fallback"})]_vars

C10_Witness ==
    \E r \in Runs :
        /\ iter[r] = MaxIterations
        /\ outcome[r] = "exhausted"
        /\ Len(assembled[r]) = 1

-----------------------------------------------------------------------------
(* Properties of the collaborators, under CallSpec *)

\* the oracle answer is text json.loads rejects
IsGarbled(resp) == resp.json.t = "none" /\ resp.raw # <<>>

HasKeyword(resp, w) == Contains(Lower(resp.raw), w)

\* C11: every oracle answer that is not valid JSON and contains "finish",
\* whether or not it also contains "search", is decoded as the finish action
\* with the raw answer as its summary.
C11_FinishKeywordDecodesToFinish ==
    (Returned("decode") /\ IsGarbled(call.resp) /\ HasKeyword(call.resp, "finish"))
        => (call.out.kind = "finish" /\ call.out.summary = Str(call.resp.raw))

\* C12: every oracle answer that is not valid JSON, contains "search" in any
\* letter case and does not contain "finish" is decoded as the search action
\* whose query, the one handed to ddg_search, is the raw answer.
C12_SearchKeywordDecodesToSearch ==
    (Returned("decode") /\ IsGarbled(call.resp) /\ HasKeyword(call.resp, "search")
        /\ ~HasKeyword(call.resp, "finish"))
        => (call.out.kind = "search" /\ call.out.query = Str(call.resp.raw))

C12_Witness ==
    /\ Returned("decode")
    /\ call.resp = Out(<<"cats", "Researching">>, NoJSON)
    /\ call.out = Decision("search", Str(<<"cats", "Researching">>), Absent)

AllFailed(outs) == \A i \in DOMAIN outs : outs[i].status = "error"

\* C13: when every request fails, fetch_page returns the empty string after
\* exactly 3 requests, request number i carrying profile i mod 3 of the
\* rotation, which makes three different profiles.
C13_AllFailedTriesEveryProfile ==
    (Returned("fetch_page") /\ AllFailed(call.outs))
        => /\ call.out.text = EmptyText
           /\ call.out.attempts = 3
           /\ \A i \in 0..2 : call.out.sent[i + 1] = COMMON_HEADERS[(i % 3) + 1]
           /\ Cardinality({call.out.sent[i] : i \in 1..3}) = 3

C13_Witness ==
    /\ Returned("fetch_page")
    /\ AllFailed(call.outs)
    /\ Len(call.out.sent) = 3

\* C14: fetch_page returns the empty string exactly when every request
\* failed, and a request that is answered is the last one.
C14_EmptyIffAllFailed ==
    Returned("fetch_page")
        => /\ (call.out.text = EmptyText) <=> AllFailed(call.outs)
           /\ \A i \in DOMAIN call.outs :
                 (call.outs[i].status = "ok" /\ \A j \in 1..(i - 1) : call.outs[j].status = "error")
                     => call.out.attempts = i

\* the http anchors of a page as results, in document order
RECURSIVE HttpResults(_)
HttpResults(anchors) ==
    IF anchors = <<>> THEN <<>>
    ELSE IF StartsWithHttp(Head(anchors).href)
         THEN <<SearchResult(Head(anchors))>> \o HttpResults(Tail(anchors))
         ELSE HttpResults(Tail(anchors))

\* C16: for every max_results >= 0, 0 included, ddg_search returns at most
\* max_results results, the first http anchors of the page in document
\* order, and the empty list when the request fails.
C16_AtMostMaxResults ==
    Returned("ddg_search")
        => LET all == HttpResults(call.response.anchors) IN
           /\ Len(call.out) <= call.max_results
           /\ call.out = SubSeq(all, 1, Len(call.out))
           /\ ~call.response.ok => call.out = <<>>

-----------------------------------------------------------------------------
(* Properties of the search pass, the queue and the end of the loop, under *)
(* Spec                                                                    *)

\* C15: the findings handed to create_pdf, and the sections it writes, are
\* the findings in the order in which they were appended: notes only grows
\* at its end, one finding at a time, every call of create_pdf receives all
\* of notes, and section i is finding i, also when URLs repeat.
C15_FindingsInAppendOrder ==
    /\ [](\A r \in Runs : \A k \in Calls(r) :
            /\ assembled[r][k].notes = notes[r]
            /\ Len(assembled[r][k].sections) = Len(notes[r])
            /\ \A i \in 1..Len(notes[r]) :
                  assembled[r][k].sections[i] =
                      [number |-> i, title |-> notes[r][i].title, url |-> notes[r][i].url,
                       summary |-> notes[r][i].summary])
    /\ [][\A r \in Runs :
            notes'[r] # notes[r]
                => /\ Len(notes'[r]) = Len(notes[r]) + 1
                   /\ SubSeq(notes'[r], 1, Len(notes[r])) = notes[r]]_vars

C15_Witness ==
    \E r \in Runs :
        /\ made[r].search = 2
        /\ Len(notes[r]) = 2
        /\ notes[r][1].url = notes[r][2].url
        /\ notes[r][1].summary # notes[r][2].summary
        /\ Len(assembled[r]) = 1
        /\ assembled[r][1].ok

\* the oracle's answer {"action": "search", "query": "Y"}
SearchY ==
    Out(<<"{", "action", "search", "query", "Y", "}">>,
        Obj(Str(<<"search">>), Str(<<"Y">>), Absent))

\* C17: a pass in which the oracle answers {"action": "search", "query": "Y"}
\* makes exactly one call of ddg_search, with query "Y" and the run's
\* max_results, and at most max_results calls of fetch_page, one for each
\* result in result order, before the next decision.
C17_OneSearchBoundedFetches ==
    \A r \in Runs :
        (pass[r].on /\ pass[r].resp = SearchY)
            => /\ pass[r].searches =
                      <<[query |-> Str(<<"Y">>), max_results |-> max_results[r]]>>
               /\ Len(pass[r].pages) <= max_results[r]
               /\ Len(pass[r].pages) <= Len(pass[r].found)
               /\ \A i \in DOMAIN pass[r].pages : pass[r].pages[i].url = pass[r].found[i].url

C19_OneFindingPerResult ==
    \A r \in Runs :
        pass[r].on
            => LET p == pass[r]
                   before == Len(notes[r]) - Len(p.pages)
               IN  /\ before >= 0
                   /\ Len(p.pages) <= Len(p.found)
                   /\ pc[r] = "loop" => Len(p.pages) = Len(p.found)
                   /\ p.found = <<>> => pc[r] = "loop"
                   /\ \A i \in DOMAIN p.pages :
                         LET f == notes[r][before + i]
                             res == p.found[i]
                             text == p.pages[i].text
                         IN  /\ DOMAIN f = {"title", "url", "summary"}
                             /\ f.title = res.title
                             /\ f.url = res.url
                             /\ IF text = EmptyText
                                 THEN f.summary = res.snippet /\ ~p.pages[i].asked
                                 ELSE /\ p.pages[i].asked
                                      /\ p.pages[i].input.id = text.id
                                      /\ p.pages[i].input.len =
                                             (IF text.len < 5000 THEN text.len ELSE 5000)
                                      /\ f.summary =
                                             IF p.pages[i].digest # EmptyText
                                             THEN p.pages[i].digest
                                             ELSE [id |-> text.id,
                                                   len |-> IF text.len < 500 THEN text.len ELSE 500]

C19_Witness ==
    \E r \in Runs :
        /\ pass[r].on
        /\ pc[r] = "loop"
        /\ Len(pass[r].pages) = 2
        /\ pass[r].pages[1].text = EmptyText
        /\ pass[r].pages[2].text = Article
        /\ pass[r].pages[2].digest = EmptyText
        /\ notes[r][Len(notes[r])].summary = Text("ARTICLE", 500)

\* the decision was not an action, or the oracle gave no answer
Strict(r) == outcome[r] \in {"invalid", "silent"}

\* C20: once a decision is invalid, an empty oracle answer included, the run
\* has put its warning and calls neither the oracle nor ddg_search nor
\* fetch_page again; what follows is the fallback create_pdf with the
\* findings so far, the update of LAST_REPORT and the final event.
C20_InvalidEndsTheRun ==
    /\ [](\A r \in Runs :
            Strict(r)
                => /\ pc[r] \in {"fallback", "fallback_lock", "fallback_set",
                                 "fallback_put", "done"}
                   /\ pc[r] = "fallback"
                         => /\ lastEvent[r].kind \in {"warn_invalid", "warn_silent"}
                            /\ assembled[r] = <<>>
                   /\ pc[r] # "fallback"
                         => /\ Len(assembled[r]) = 1
                            /\ assembled[r][1].notes = notes[r]
                            /\ assembled[r][1].path = path[r]
                            /\ path[r][1] = "report_partial"
                   /\ pc[r] = "done" => lastEvent[r] = Event("partial_ready", path[r]))
    /\ [][\A r \in Runs :
            (Strict(r) \/ outcome[r] = "raised")
                => /\ made'[r] = made[r]
                   /\ iter'[r] = iter[r]
                   /\ notes'[r] = notes[r]
                   /\ outcome'[r] = outcome[r]]_vars

C20_Witness ==
    \E r \in Runs :
        /\ outcome[r] = "invalid"
        /\ pc[r] = "done"
        /\ notes[r] # <<>>
        /\ made[r].oracle > iter[r]
        /\ LAST_REPORT = path[r]

====
